---- MODULE Spec2Model ----
(***************************************************************************)
(* A model of fetch.py (UW-GAC/fetch-dbgap-files): the class               *)
(* dbGaPFileFetcher and its retry-and-verification loop download_files.    *)
(*                                                                         *)
(* File names are sequences of pieces; the text ".tar" is always a piece   *)
(* of its own, so that str.endswith and str.split(".tar") can be computed  *)
(* on the pieces.  A directory tree maps every name to an entry: nothing,  *)
(* a file with a content tag, or a directory with files as children.       *)
(***************************************************************************)
EXTENDS Integers, Sequences, FiniteSets, TLC

\* ------------------------------------------------------------- bounds ----
\* Largest n_retries a caller passes.
MaxRetries == 3
\* Attempts explored of a loop that never ends (n_retries < 1).
MaxAttempts == 3
\* Calls of download_files made on one controller.
MaxCalls == 2
\* Longest manifest, in data rows.
MaxRows == 2
\* Pieces in an entry name of the name-splitting specification.
MaxPieces == 4

\* -------------------------------------------------------------- names ----
A == <<"a">>
S == <<"s">>
S_TAR == <<"s", ".tar">>
S_TAR_GZ == <<"s", ".tar", ".gz">>
T == <<"t">>
T_TAR == <<"t", ".tar">>
Names == {A, S, S_TAR, S_TAR_GZ, T, T_TAR}
\* The names of the files the Downloader leaves in a run of the program.
DlNames == {A, S, S_TAR}
\* The names of the files of a directory _untar is given.
UntarNames == {A, S, S_TAR, S_TAR_GZ, T_TAR}

\* Content tags: a file the output directory held before, a file the
\* Downloader wrote, a file the archive tool extracted.
Contents == {"old", "dl", "x"}
Absent == "-"

NoChildren == [n \in Names |-> Absent]
NoEntry == [kind |-> "none", c |-> Absent, ch |-> NoChildren]
FileEntry(c) == [kind |-> "file", c |-> c, ch |-> NoChildren]
DirEntry(ch) == [kind |-> "dir", c |-> Absent, ch |-> ch]
EmptyTree == [n \in Names |-> NoEntry]

\* os.listdir(directory): the names of the top-level entries.
ListDir(tree) == {n \in Names : tree[n].kind # "none"}

\* f.endswith(".tar") or f.endswith(".tar.gz")
EndsWithTar(f) ==
    \/ Len(f) >= 1 /\ f[Len(f)] = ".tar"
    \/ Len(f) >= 2 /\ f[Len(f) - 1] = ".tar" /\ f[Len(f)] = ".gz"

\* The index of the first piece ".tar" of f, or Len(f) + 1 when there is none.
RECURSIVE FirstTar(_, _)
FirstTar(f, k) ==
    IF k > Len(f) THEN k
    ELSE IF f[k] = ".tar" THEN k ELSE FirstTar(f, k + 1)

\* f.split(".tar")[0]: the text before the first ".tar".
SplitTar0(f) == SubSeq(f, 1, FirstTar(f, 1) - 1)

\* ---------------------------------------------------------- arguments ----
\* A manifest file: whether its header has the column "File Name", and the
\* values of that column in its data rows.
RECURSIVE SeqsUpTo(_, _)
SeqsUpTo(set, k) ==
    IF k = 0 THEN {<<>>}
    ELSE LET shorter == SeqsUpTo(set, k - 1)
         IN  shorter \cup {Append(r, n) : r \in shorter, n \in set}

ManifestNames == {A, S_TAR}
NoManifest == [given |-> FALSE, hasCol |-> FALSE, rows |-> <<>>]
Manifests ==
    {[given |-> TRUE, hasCol |-> TRUE, rows |-> r] : r \in SeqsUpTo(ManifestNames, MaxRows)}
    \cup {[given |-> TRUE, hasCol |-> FALSE, rows |-> r] : r \in SeqsUpTo({A}, 1)}

\* n_files: None, or an integer.
NoCount == [given |-> FALSE, v |-> 0]
Count(v) == [given |-> TRUE, v |-> v]
Counts == {Count(v) : v \in 0 .. 2}

\* The (manifest, n_files) pairs a caller passes.
CheckArgs ==
    {<<NoManifest, NoCount>>}
    \cup {<<NoManifest, c>> : c \in Counts}
    \cup {<<m, NoCount>> : m \in Manifests}
    \cup {<<[given |-> TRUE, hasCol |-> TRUE, rows |-> <<A>>], Count(2)>>,
          <<[given |-> TRUE, hasCol |-> FALSE, rows |-> <<A>>], Count(1)>>}

\* download_files(..., n_retries=3, ...)
DefaultRetries == 3
RetryValues == (0 - 1) .. MaxRetries

\* Python truthiness of the two optional arguments.
TruthyNever(opt) == FALSE
Truthy(opt) == opt.given
TruthyInt(opt) == opt.given /\ opt.v # 0

\* The trees the output directory may hold before the first call.
OutInits ==
    { EmptyTree,
      [EmptyTree EXCEPT ![A] = FileEntry("old"), ![S_TAR] = FileEntry("old")],
      [EmptyTree EXCEPT ![A] = DirEntry(NoChildren)],
      [EmptyTree EXCEPT ![A] = DirEntry([NoChildren EXCEPT ![A] = "old"]),
                        ![S] = FileEntry("old")] }

\* -------------------------------------------------------------- state ----
VARIABLES
    pc,                    \* position in download_files
    manifest, n_files, n_retries, untar,   \* arguments of the call
    i, all_files_downloaded,               \* locals of the loop
    tar_files,             \* _untar: the archives still to extract
    cwd,                   \* the process's working directory
    original_working_directory,
    tempExists, temp,      \* the TemporaryDirectory and its tree
    out,                   \* the tree of self.output_dir
    result, fault,         \* how the call ended
    cmd,                   \* the last command _run_prefetch built
    invocations,           \* Downloader invocations of this call
    verdicts,              \* the verification made after each attempt
    listings, reads,       \* os.listdir / _read_manifest calls of this call
    finalTemp,             \* the tree of the temporary directory at exit
    relocSrc, relocDst, relocLeft,  \* relocation: source, target before, source after
    calls,                 \* calls of download_files made
    returned_value,        \* _run_prefetch: the Downloader's exit status
    fname, extract_directory,  \* _untar: f and the directory made for it
    tarRuns,               \* the tar commands run, with their exit statuses
    fault_archive,         \* the archive a RuntimeError names
    relocated,             \* copytree has run in this call
    outAtCall,             \* the output directory's tree when the call began
    exit_code              \* the exit status of the program, -1 while it runs

vars == <<pc, manifest, n_files, n_retries, untar, i, all_files_downloaded,
          tar_files, cwd, original_working_directory, tempExists, temp, out, result, fault, cmd,
          invocations, verdicts, listings, reads, finalTemp,
          relocSrc, relocDst, relocLeft, calls, returned_value, fname,
          extract_directory, tarRuns, fault_archive, relocated, outAtCall,
          exit_code>>

NoCmd == [ngc |-> "-", order |-> "-", cart |-> "-", max_size |-> 0,
          output_directory |-> "-"]

Init ==
    /\ pc = "idle"
    /\ manifest = NoManifest /\ n_files = NoCount /\ untar = FALSE
    /\ n_retries = DefaultRetries
    /\ i = 1 /\ all_files_downloaded = FALSE
    /\ tar_files = {}
    /\ cwd = "orig" /\ original_working_directory = "orig"
    /\ tempExists = FALSE /\ temp = EmptyTree
    /\ out \in OutInits
    /\ result = "none" /\ fault = "none"
    /\ cmd = NoCmd
    /\ invocations = 0 /\ verdicts = <<>> /\ listings = 0 /\ reads = 0
    /\ finalTemp = EmptyTree
    /\ relocSrc = EmptyTree /\ relocDst = EmptyTree /\ relocLeft = EmptyTree
    /\ calls = 0
    /\ returned_value = 0
    /\ fname = <<>> /\ extract_directory = <<>>
    /\ tarRuns = <<>> /\ fault_archive = <<>>
    /\ relocated = FALSE
    /\ outAtCall = out
    /\ exit_code = 0 - 1

\* ------------------------------------------------------------ helpers ----
\* --max-size of the prefetch command line.
MaxSize == 500000000

\* _run_prefetch: the command line it builds.  self.output_dir is an
\* absolute path, hence never empty, and --output-directory is always added.
RunPrefetchCmd ==
    [ngc |-> "ngc_file", order |-> "kart", cart |-> "cart_file",
     max_size |-> MaxSize, output_directory |-> "output_dir"]

\* The Downloader writes the files W with content c into a directory; a
\* directory entry of that name stays as it is.
WriteFiles(tree, W, c) ==
    [n \in Names |-> IF n \in W /\ tree[n].kind # "dir" THEN FileEntry(c) ELSE tree[n]]

\* What one Downloader run may write into the directory its command names.
TargetWrites == SUBSET {A}

ReadManifestLenient(m) ==
    [raised |-> FALSE, files |-> IF m.hasCol THEN m.rows ELSE <<>>]

\* _read_manifest: csv.DictReader over the data rows; row["File Name"]
\* raises KeyError on the first data row when the header lacks the column.
ReadManifest(m) ==
    [raised |-> ~m.hasCol /\ Len(m.rows) > 0,
     files |-> IF m.hasCol THEN m.rows ELSE <<>>]

\* set(list): the set of the elements of a list.
SetOf(list) == {list[k] : k \in 1 .. Len(list)}

CheckManifestSubset(tree, expected_files) ==
    SetOf(expected_files) \subseteq ListDir(tree)

\* _check_prefetch_against_manifest, given the directory's tree and the
\* list _read_manifest returned.
CheckManifest(tree, expected_files) ==
    ListDir(tree) = SetOf(expected_files)

\* _check_prefetch_against_n_files
CheckNFiles(tree, n) ==
    Cardinality(ListDir(tree)) = n

\* tempfile.TemporaryDirectory.__exit__: the directory and all it holds go.
CleanupKeeps(tree) == [exists |-> TRUE, tree |-> tree]
Cleanup(tree) == [exists |-> FALSE, tree |-> EmptyTree]

\* shutil.copytree(temp_dir, output_dir, copy_function=shutil.move,
\* dirs_exist_ok=True) on the entry of one name: the target's entry after,
\* the source's entry after, and whether an error was collected.
MoveEntry(src, dst, n) ==
    IF src.kind = "none" THEN [dst |-> dst, src |-> src, err |-> FALSE]
    ELSE IF src.kind = "file" THEN
        \* shutil.move(src, dst): into dst when dst is a directory
        IF dst.kind = "dir" THEN
            IF dst.ch[n] # Absent
            THEN [dst |-> dst, src |-> src, err |-> TRUE]
            ELSE [dst |-> DirEntry([dst.ch EXCEPT ![n] = src.c]),
                  src |-> NoEntry, err |-> FALSE]
        ELSE [dst |-> FileEntry(src.c), src |-> NoEntry, err |-> FALSE]
    ELSE
        \* copytree of a subdirectory: os.makedirs(dst, exist_ok=True)
        IF dst.kind = "file" THEN [dst |-> dst, src |-> src, err |-> TRUE]
        ELSE [dst |-> DirEntry([k \in Names |->
                         IF src.ch[k] # Absent THEN src.ch[k] ELSE dst.ch[k]]),
              src |-> DirEntry(NoChildren), err |-> FALSE]

CopyTree(srcTree, dstTree) ==
    [dst |-> [n \in Names |-> MoveEntry(srcTree[n], dstTree[n], n).dst],
     src |-> [n \in Names |-> MoveEntry(srcTree[n], dstTree[n], n).src],
     err |-> \E n \in Names : MoveEntry(srcTree[n], dstTree[n], n).err]

\* What tar may put into the extraction directory.
Extracted == {NoChildren, [NoChildren EXCEPT ![A] = "x"]}
\* Exit statuses of the tar command.
TarStatuses == {0, 2}

\* Line 49: while not all_files_downloaded
WhileCondIgnoresVerdict(done, k, n) == k <= n
WhileCond(done, k, n) == ~done

\* Line 52: if i == n_retries
LastAttemptCheckedLate(k, n) == k > n
LastAttempt(k, n) == k = n

\* Lines 59-61: without manifest and n_files the attempt is assumed to
\* have worked.
AssumeWorkedNever == FALSE
AssumeWorked == TRUE

\* Exit statuses of the prefetch command: success and failure.
PrefetchStatuses == {0, 1}

\* Line 51: the status _run_prefetch returns is not looked at.
StopsLoopOnFailure(status) == status # 0
StopsLoop(status) == FALSE

\* Line 126: if returned_value != 0
TarFailedNever(status) == FALSE
TarFailed(status) == status # 0

\* Lines 99-114: the checks only list the directory.
DroppedByVerification(tree) == EmptyTree
KeptByVerification(tree) == tree

\* Lines 157-160 and the interpreter's exit after an uncaught exception.
ExitCodeZeroUnlessFalse(res) == IF res = "false" THEN 1 ELSE 0
ExitCode(res) == IF res = "true" THEN 0 ELSE 1

\* The end of a call: the with block is left, by return or by exception.
ExitNaming(res, flt, tree, archive) ==
    /\ pc' = "done"
    /\ result' = res /\ fault' = flt
    /\ fault_archive' = archive
    /\ finalTemp' = tree
    /\ tempExists' = Cleanup(tree).exists
    /\ temp' = Cleanup(tree).tree

Exit(res, flt, tree) == ExitNaming(res, flt, tree, <<>>)

\* ------------------------------------------------------------ actions ----
\* download_files is called: lines 42-48.  os.path.abspath / os.getcwd
\* raise FileNotFoundError when the working directory has been deleted.
Enter ==
    /\ calls' = calls + 1
    /\ \E args \in CheckArgs, n \in RetryValues, u \in BOOLEAN :
         /\ manifest' = args[1] /\ n_files' = args[2]
         /\ n_retries' = n /\ untar' = u
    /\ i' = 1 /\ all_files_downloaded' = FALSE
    /\ tar_files' = {}
    /\ cmd' = NoCmd
    /\ invocations' = 0 /\ verdicts' = <<>> /\ listings' = 0 /\ reads' = 0
    /\ relocSrc' = EmptyTree /\ relocDst' = EmptyTree /\ relocLeft' = EmptyTree
    /\ returned_value' = 0
    /\ fname' = <<>> /\ extract_directory' = <<>>
    /\ tarRuns' = <<>> /\ fault_archive' = <<>>
    /\ relocated' = FALSE
    /\ outAtCall' = out
    /\ UNCHANGED exit_code
    /\ IF cwd = "temp" /\ ~tempExists
       THEN /\ pc' = "done" /\ result' = "raised" /\ fault' = "cwd"
            /\ UNCHANGED <<cwd, original_working_directory, tempExists, temp, finalTemp>>
       ELSE /\ pc' = "while" /\ result' = "none" /\ fault' = "none"
            /\ original_working_directory' = cwd
            /\ tempExists' = TRUE /\ temp' = EmptyTree
            /\ cwd' = "temp"
            /\ finalTemp' = EmptyTree
    /\ UNCHANGED out

\* The call the command-line program makes (line 156).
Call ==
    /\ pc = "idle"
    /\ Enter

\* A further call on the same controller, after the last one has ended.
CallAgain ==
    /\ pc = "done"
    /\ calls < MaxCalls
    /\ Enter

\* Lines 49-51: one more attempt.  The Downloader is an external process
\* started with the temporary directory as its working directory (line 45)
\* and --output-directory as its command line says: it may leave files W in
\* the former and files V in the latter.  Its exit status is returned by
\* _run_prefetch (lines 96-97) and dropped by the caller (line 51).
RunPrefetch ==
    /\ pc = "while" /\ WhileCond(all_files_downloaded, i, n_retries)
    /\ n_retries >= 1 \/ i <= MaxAttempts
    /\ cmd' = RunPrefetchCmd
    /\ invocations' = invocations + 1
    /\ returned_value' \in PrefetchStatuses
    /\ \E W \in SUBSET DlNames, V \in TargetWrites :
         IF cmd'.output_directory = "output_dir"
         THEN /\ temp' = WriteFiles(temp, W, "dl")
              /\ out' = WriteFiles(out, V, "dl")
         ELSE /\ temp' = WriteFiles(WriteFiles(temp, W, "dl"), V, "dl")
              /\ out' = out
    /\ pc' = "check_retries"
    /\ UNCHANGED <<manifest, n_files, n_retries, untar, i, all_files_downloaded,
                   tar_files, cwd, original_working_directory, tempExists,
                   result, fault, verdicts, listings, reads, finalTemp,
                   relocSrc, relocDst, relocLeft, calls, fname,
                   extract_directory, tarRuns, fault_archive, relocated,
                   outAtCall, exit_code>>

\* Lines 52-54: the last attempt returns False at once.
RetriesExhausted ==
    /\ pc = "check_retries"
    /\ LastAttempt(i, n_retries) \/ StopsLoop(returned_value)
    /\ Exit("false", "none", temp)
    /\ UNCHANGED <<manifest, n_files, n_retries, untar, i, all_files_downloaded,
                   tar_files, cwd, original_working_directory, out, cmd,
                   invocations, verdicts, listings, reads,
                   relocSrc, relocDst, relocLeft, calls, returned_value, fname,
                   extract_directory, tarRuns, relocated, outAtCall, exit_code>>

\* Lines 55-62: the attempt is verified and counted.
Verify ==
    /\ pc = "check_retries"
    /\ ~(LastAttempt(i, n_retries) \/ StopsLoop(returned_value))
    /\ IF Truthy(manifest) THEN
          LET rd == ReadManifest(manifest) IN
          /\ reads' = reads + 1
          /\ IF rd.raised
             THEN /\ Exit("raised", "manifest", temp)
                  /\ UNCHANGED <<i, all_files_downloaded, verdicts, listings>>
             ELSE /\ listings' = listings + 1
                  /\ all_files_downloaded' = CheckManifest(temp, rd.files)
                  /\ verdicts' = Append(verdicts,
                        [by |-> "manifest", ok |-> all_files_downloaded'])
                  /\ i' = i + 1
                  /\ pc' = "while"
                  /\ temp' = KeptByVerification(temp)
                  /\ UNCHANGED <<result, fault, fault_archive, finalTemp, tempExists>>
       ELSE IF TruthyInt(n_files) THEN
          /\ listings' = listings + 1
          /\ all_files_downloaded' = CheckNFiles(temp, n_files.v)
          /\ verdicts' = Append(verdicts,
                [by |-> "n_files", ok |-> all_files_downloaded'])
          /\ i' = i + 1
          /\ pc' = "while"
          /\ temp' = KeptByVerification(temp)
          /\ UNCHANGED <<reads, result, fault, fault_archive, finalTemp, tempExists>>
       ELSE
          /\ all_files_downloaded' = AssumeWorked
          /\ verdicts' = Append(verdicts,
                [by |-> "none", ok |-> all_files_downloaded'])
          /\ i' = i + 1
          /\ pc' = "while"
          /\ UNCHANGED <<reads, listings, result, fault, fault_archive,
                         finalTemp, tempExists, temp>>
    /\ UNCHANGED <<manifest, n_files, n_retries, untar, tar_files, cwd,
                   original_working_directory, out, cmd, invocations,
                   relocSrc, relocDst, relocLeft, calls, returned_value, fname,
                   extract_directory, tarRuns, relocated, outAtCall, exit_code>>

\* Lines 63-64 and 118-119: the loop is left; _untar lists the archives.
LoopExit ==
    /\ pc = "while" /\ ~WhileCond(all_files_downloaded, i, n_retries)
    /\ IF untar
       THEN /\ pc' = "untar"
            /\ tar_files' = {f \in ListDir(temp) : EndsWithTar(f)}
       ELSE /\ pc' = "relocate"
            /\ UNCHANGED tar_files
    /\ UNCHANGED <<manifest, n_files, n_retries, untar, i, all_files_downloaded,
                   cwd, original_working_directory, tempExists, temp, out,
                   result, fault, cmd, invocations, verdicts, listings, reads,
                   finalTemp, relocSrc, relocDst, relocLeft, calls,
                   returned_value, fname, extract_directory, tarRuns,
                   fault_archive, relocated, outAtCall, exit_code>>

\* Lines 120-130: one archive, in the order os.listdir gave.  os.mkdir
\* raises FileExistsError when the extraction directory's name is taken (an
\* empty name is the working directory itself).
UntarOne ==
    /\ pc = "untar" /\ tar_files # {}
    /\ \E f \in tar_files :
         LET base == SplitTar0(f) IN
         /\ fname' = f /\ extract_directory' = base
         /\ IF base \notin Names \/ temp[base].kind # "none"
            THEN /\ Exit("raised", "mkdir", temp)
                 /\ UNCHANGED <<tar_files, tarRuns>>
            ELSE \E st \in TarStatuses, kids \in Extracted :
                 LET made == [temp EXCEPT ![base] = DirEntry(kids)] IN
                 /\ tarRuns' = Append(tarRuns, [f |-> f, st |-> st])
                 /\ IF TarFailed(st)
                    THEN /\ ExitNaming("raised", "tar", made, f)
                         /\ UNCHANGED tar_files
                    ELSE /\ temp' = [made EXCEPT ![f] = NoEntry]
                         /\ tar_files' = tar_files \ {f}
                         /\ UNCHANGED <<pc, result, fault, fault_archive,
                                        finalTemp, tempExists>>
    /\ UNCHANGED <<manifest, n_files, n_retries, untar, i, all_files_downloaded,
                   cwd, original_working_directory, out, cmd, invocations,
                   verdicts, listings, reads, relocSrc, relocDst, relocLeft,
                   calls, returned_value, relocated, outAtCall, exit_code>>

\* _untar returns.
UntarDone ==
    /\ pc = "untar" /\ tar_files = {}
    /\ pc' = "relocate"
    /\ UNCHANGED <<manifest, n_files, n_retries, untar, i, all_files_downloaded,
                   tar_files, cwd, original_working_directory, tempExists, temp,
                   out, result, fault, cmd, invocations, verdicts, listings,
                   reads, finalTemp, relocSrc, relocDst, relocLeft, calls,
                   returned_value, fname, extract_directory, tarRuns,
                   fault_archive, relocated, outAtCall, exit_code>>

\* Lines 65-68: back to the original directory, the tree is moved onto the
\* output directory, True is returned unless copytree raised.
Relocate ==
    /\ pc = "relocate"
    /\ cwd' = original_working_directory
    /\ relocated' = TRUE
    /\ LET moved == CopyTree(temp, out) IN
         /\ out' = moved.dst
         /\ relocSrc' = temp /\ relocDst' = out /\ relocLeft' = moved.src
         /\ IF moved.err
            THEN Exit("raised", "relocate", moved.src)
            ELSE Exit("true", "none", moved.src)
    /\ UNCHANGED <<manifest, n_files, n_retries, untar, i, all_files_downloaded,
                   tar_files, original_working_directory, cmd, invocations,
                   verdicts, listings, reads, calls, returned_value, fname,
                   extract_directory, tarRuns, outAtCall, exit_code>>

\* Lines 156-160: the program ends.  sys.exit(1) after False; an exception
\* that nobody catches ends the interpreter with status 1 as well.
MainExit ==
    /\ pc = "done"
    /\ pc' = "exited"
    /\ exit_code' = ExitCode(result)
    /\ UNCHANGED <<manifest, n_files, n_retries, untar, i, all_files_downloaded,
                   tar_files, cwd, original_working_directory, tempExists, temp,
                   out, result, fault, cmd, invocations, verdicts, listings,
                   reads, finalTemp, relocSrc, relocDst, relocLeft, calls,
                   returned_value, fname, extract_directory, tarRuns,
                   fault_archive, relocated, outAtCall>>

Next ==
    \/ Call
    \/ RunPrefetch
    \/ RetriesExhausted
    \/ Verify
    \/ LoopExit
    \/ UntarOne
    \/ UntarDone
    \/ Relocate
    \/ MainExit

\* One run of the command-line program: one call of download_files.
Spec == Init /\ [][Next]_vars

\* A controller used through its API: calls in sequence.
NextSeq == Next \/ CallAgain
\* download_files(cart, untar=True) with its first attempt accepted, for any
\* set of files the Downloader may have left: _untar and what follows it.
InitUntar ==
    /\ pc = "while"
    /\ manifest = NoManifest /\ n_files = NoCount /\ untar = TRUE
    /\ n_retries = DefaultRetries
    /\ i = 2 /\ all_files_downloaded = TRUE
    /\ tar_files = {}
    /\ cwd = "temp" /\ original_working_directory = "orig"
    /\ tempExists = TRUE
    /\ \E W \in SUBSET UntarNames : temp = WriteFiles(EmptyTree, W, "dl")
    /\ out \in OutInits
    /\ result = "none" /\ fault = "none"
    /\ cmd = RunPrefetchCmd
    /\ invocations = 1 /\ verdicts = <<[by |-> "none", ok |-> TRUE]>>
    /\ listings = 0 /\ reads = 0
    /\ finalTemp = EmptyTree
    /\ relocSrc = EmptyTree /\ relocDst = EmptyTree /\ relocLeft = EmptyTree
    /\ calls = 1
    /\ returned_value = 0
    /\ fname = <<>> /\ extract_directory = <<>>
    /\ tarRuns = <<>> /\ fault_archive = <<>>
    /\ relocated = FALSE
    /\ outAtCall = out
    /\ exit_code = 0 - 1

NextUntar ==
    \/ LoopExit
    \/ UntarOne
    \/ UntarDone
    \/ Relocate
    \/ MainExit

SpecUntar == InitUntar /\ [][NextUntar]_vars

InitSeq == Init /\ out = EmptyTree
SpecSeq == InitSeq /\ [][NextSeq]_vars

\* Lines 118-121 on their own, for entry names of any shape: a name is a
\* sequence of pieces, the text ".tar" always a piece of its own, so that
\* "data.target.tar" is <<"data", ".tar", "get", ".tar">>.
NamePieces == {"data", "get", ".tar", ".gz"}
EntryNames == SeqsUpTo(NamePieces, MaxPieces) \ {<<>>}

InitNames ==
    /\ pc = "listed"
    /\ fname \in EntryNames
    /\ manifest = NoManifest /\ n_files = NoCount /\ untar = TRUE
    /\ n_retries = DefaultRetries
    /\ i = 2 /\ all_files_downloaded = TRUE
    /\ tar_files = {}
    /\ cwd = "temp" /\ original_working_directory = "orig"
    /\ tempExists = TRUE /\ temp = EmptyTree
    /\ out = EmptyTree
    /\ result = "none" /\ fault = "none"
    /\ cmd = RunPrefetchCmd
    /\ invocations = 1 /\ verdicts = <<[by |-> "none", ok |-> TRUE]>>
    /\ listings = 0 /\ reads = 0
    /\ finalTemp = EmptyTree
    /\ relocSrc = EmptyTree /\ relocDst = EmptyTree /\ relocLeft = EmptyTree
    /\ calls = 1
    /\ returned_value = 0
    /\ extract_directory = <<>>
    /\ tarRuns = <<>> /\ fault_archive = <<>>
    /\ relocated = FALSE
    /\ outAtCall = out
    /\ exit_code = 0 - 1

\* Line 119: the entry is an archive or it is passed over.
FilterName ==
    /\ pc = "listed"
    /\ pc' = IF EndsWithTar(fname) THEN "archive" ELSE "skipped"
    /\ UNCHANGED <<manifest, n_files, n_retries, untar, i, all_files_downloaded,
                   tar_files, cwd, original_working_directory, tempExists, temp,
                   out, result, fault, cmd, invocations, verdicts, listings,
                   reads, finalTemp, relocSrc, relocDst, relocLeft, calls,
                   returned_value, fname, extract_directory, tarRuns,
                   fault_archive, relocated, outAtCall, exit_code>>

\* Line 121: extract_directory = f.split(".tar")[0].
SplitName ==
    /\ pc = "archive"
    /\ extract_directory' = SplitTar0(fname)
    /\ pc' = "split"
    /\ UNCHANGED <<manifest, n_files, n_retries, untar, i, all_files_downloaded,
                   tar_files, cwd, original_working_directory, tempExists, temp,
                   out, result, fault, cmd, invocations, verdicts, listings,
                   reads, finalTemp, relocSrc, relocDst, relocLeft, calls,
                   returned_value, fname, tarRuns, fault_archive, relocated,
                   outAtCall, exit_code>>

NextNames ==
    \/ FilterName
    \/ SplitName

SpecNames == InitNames /\ [][NextNames]_vars

\* ------------------------------------------------------------- claims ----
Done == pc = "done"
LastVerdict == verdicts[Len(verdicts)]
\* Verification failed after attempts 1..k-1 and succeeded after attempt k.
VerifiedAt(k) ==
    /\ k >= 1 /\ Len(verdicts) = k
    /\ verdicts[k].ok
    /\ \A j \in 1 .. k - 1 : ~verdicts[j].ok
NeverVerified == \A j \in 1 .. Len(verdicts) : ~verdicts[j].ok
\* Faults of the steps after the loop: extraction and relocation.
PostFaults == {"mkdir", "tar", "relocate"}
NoStrategy == ~manifest.given /\ ~n_files.given

\* C1 as stated: for n > 1 and k < n, if verification fails after attempts
\* 1..k-1 and succeeds after attempt k, the Downloader is invoked exactly k
\* times and download_files returns true.
C1_AsStated ==
    (Done /\ n_retries > 1 /\ Len(verdicts) < n_retries /\ VerifiedAt(Len(verdicts)))
        => (invocations = Len(verdicts) /\ result = "true")

\* C1 amended: under the same condition the Downloader is invoked exactly k
\* times, at every moment from the verification on, and the call never
\* returns false: it returns true unless extraction or relocation raises.
C1_VerifiedAtK ==
    (n_retries > 1 /\ Len(verdicts) < n_retries /\ VerifiedAt(Len(verdicts)))
        => /\ invocations = Len(verdicts)
           /\ Done => \/ result = "true"
                      \/ result = "raised" /\ fault \in PostFaults

C1_Witness ==
    /\ Done /\ result = "true" /\ n_retries = 3
    /\ VerifiedAt(2) /\ invocations = 2

\* C2: for n >= 1, if no verification after attempts 1..n-1 succeeds, the
\* Downloader is invoked exactly n times, false is returned, and nothing is
\* verified after the n-th attempt: no manifest read, no directory listing.
C2_Exhaustion ==
    /\ (n_retries >= 1 /\ invocations >= n_retries)
          => /\ Len(verdicts) <= n_retries - 1
             /\ listings <= n_retries - 1
             /\ reads <= n_retries - 1
    /\ (Done /\ n_retries >= 1 /\ NeverVerified /\ result # "raised")
          => /\ result = "false"
             /\ invocations = n_retries
             /\ Len(verdicts) = n_retries - 1
             /\ reads = (IF Truthy(manifest) THEN n_retries - 1 ELSE 0)
             /\ listings = (IF NoStrategy \/ (~manifest.given /\ n_files.v = 0)
                            THEN 0 ELSE n_retries - 1)

\* The n-th attempt left a directory that passes the manifest check.
C2_Witness ==
    /\ Done /\ result = "false" /\ n_retries = 3 /\ invocations = 3
    /\ Truthy(manifest) /\ manifest.hasCol /\ Len(manifest.rows) > 0
    /\ ListDir(finalTemp) = SetOf(manifest.rows)
    /\ Len(verdicts) = 2

\* C3: for every integer max_retries, 0 and negative included, the
\* Downloader is never invoked more than max_retries times (and the call
\* terminates; a run that breaks the bound on the invocations refutes the
\* claim as a whole).
C3_AtMostMaxRetries == invocations <= n_retries

\* C4: every Downloader invocation is given the temporary working directory
\* as its output target.
C4_TargetIsWorkingDir ==
    invocations > 0 => cmd.output_directory = "temp_dir"

\* C5 as stated: without manifest and expected count, for every
\* max_retries >= 1, download_files returns true after exactly one
\* Downloader invocation.
C5_AsStated ==
    (Done /\ NoStrategy /\ n_retries >= 1)
        => (result = "true" /\ invocations = 1)

\* C5 amended: without manifest and expected count, for every
\* max_retries >= 2, the first attempt is accepted: the Downloader is invoked
\* exactly once and the call returns true unless extraction or relocation
\* raises.
C5_NoVerification ==
    (Done /\ NoStrategy /\ n_retries >= 2)
        => /\ invocations = 1
           /\ \/ result = "true"
              \/ result = "raised" /\ fault \in PostFaults

C5_Witness ==
    /\ Done /\ NoStrategy /\ n_retries >= 2 /\ result = "true"
    /\ invocations = 1 /\ ListDir(relocSrc) # {}

\* C6: the manifest check of an attempt succeeds exactly when the names in
\* the working directory and the names in the manifest's column are the same
\* set: nothing missing, nothing extra, rows in any order and any number.
C6_ManifestSetEquality ==
    (pc = "while" /\ Len(verdicts) >= 1 /\ LastVerdict.by = "manifest")
        => (all_files_downloaded <=>
               /\ \A n \in ListDir(temp) :
                     \E k \in 1 .. Len(manifest.rows) : manifest.rows[k] = n
               /\ \A k \in 1 .. Len(manifest.rows) :
                     manifest.rows[k] \in ListDir(temp))

\* Accepted with a duplicated row.
C6_Witness ==
    /\ pc = "while" /\ Len(verdicts) >= 1 /\ LastVerdict.by = "manifest"
    /\ all_files_downloaded
    /\ manifest.rows = <<A, A>>

\* C7: with an expected count and no manifest, a non-final attempt is
\* accepted exactly when the number of entries equals the count, for every
\* count, 0 included.
C7_CountIff ==
    (pc = "while" /\ Len(verdicts) >= 1 /\ n_files.given /\ ~manifest.given)
        => (all_files_downloaded <=> Cardinality(ListDir(temp)) = n_files.v)

\* C8: after download_files has ended, by returning true or false or by
\* raising, the temporary directory and everything in it no longer exist.
C8_TempReleased ==
    Done => (~tempExists /\ temp = EmptyTree)

\* Extraction failed with entries still in the directory.
C8_Witness ==
    /\ Done /\ result = "raised" /\ fault = "tar"
    /\ ListDir(finalTemp) # {}

\* C9: after any call ends, the process's working directory is the
\* original, still existing one.
C9_CwdRestored ==
    Done => cwd = "orig"

\* C10: when download_files returns true, every file of the working
\* directory tree is at the same relative path under the output directory,
\* none is left in the working directory, and what the output directory
\* held at other paths is retained.
C10_MergingMove ==
    (Done /\ result = "true") =>
        \A n \in Names :
           /\ relocSrc[n].kind = "file" => out[n] = FileEntry(relocSrc[n].c)
           /\ relocSrc[n].kind = "dir" =>
                 /\ out[n].kind = "dir"
                 /\ \A k \in Names :
                       IF relocSrc[n].ch[k] # Absent
                       THEN out[n].ch[k] = relocSrc[n].ch[k]
                       ELSE relocDst[n].kind = "dir"
                               => out[n].ch[k] = relocDst[n].ch[k]
           /\ relocSrc[n].kind = "none" => out[n] = relocDst[n]
           /\ relocLeft[n].kind # "file"
           /\ \A k \in Names : relocLeft[n].ch[k] = Absent

Ended == pc \in {"done", "exited"}

\* C11: a tar command that exits non-zero ends download_files at once with
\* a fatal error naming its archive: it is the last tar command run, its
\* archive is not deleted, the archives still to extract stay as they are,
\* the Downloader is not invoked again, nothing is relocated and no boolean
\* is returned.
C11_ExtractionAbort ==
    \A k \in 1 .. Len(tarRuns) :
       tarRuns[k].st # 0 =>
          /\ k = Len(tarRuns)
          /\ Ended /\ result = "raised" /\ fault = "tar"
          /\ fault_archive = tarRuns[k].f
          /\ finalTemp[tarRuns[k].f].kind = "file"
          /\ \A g \in tar_files :
                /\ finalTemp[g].kind = "file"
                /\ \A j \in 1 .. Len(tarRuns) : tarRuns[j].f = g => j = k
          /\ invocations = Len(verdicts)
          /\ ~relocated /\ cwd = "temp"

\* The first of two archives extracted, the second failed, a third waiting.
C11_Witness ==
    /\ pc = "done" /\ fault = "tar"
    /\ Len(tarRuns) = 2 /\ tarRuns[1].st = 0
    /\ Cardinality(tar_files) = 2

LacksColumn == manifest.given /\ ~manifest.hasCol

\* C12 as stated: with a manifest that lacks the "File Name" column, for
\* every max_retries >= 1 and every number of data rows, none included, the
\* call ends by raising and not by returning a boolean.
C12_AsStated ==
    (Ended /\ LacksColumn /\ n_retries >= 1) => result = "raised"

\* C12 amended: with a manifest that lacks the "File Name" column and has at
\* least one data row, for every max_retries >= 2, the call ends by raising
\* at the first verification: the Downloader has been invoked exactly once,
\* no attempt is verified by any strategy and nothing is relocated.
C12_MissingColumn ==
    (LacksColumn /\ Len(manifest.rows) >= 1 /\ n_retries >= 2)
        => /\ invocations <= 1
           /\ verdicts = <<>> /\ listings = 0 /\ ~relocated
           /\ pc \in {"while", "check_retries", "done", "exited"}
           /\ Ended => /\ result = "raised" /\ fault = "manifest"
                       /\ invocations = 1 /\ reads = 1

C12_Witness ==
    /\ pc = "done" /\ LacksColumn /\ Len(manifest.rows) >= 1
    /\ n_retries = 3 /\ n_files.given
    /\ result = "raised" /\ fault = "manifest" /\ invocations = 1

\* What decides the loop: its position, its locals and its outcome.
LoopControl == <<pc, i, all_files_downloaded, result, fault, invocations>>

\* The loop's control after an attempt, as a function of the arguments, the
\* attempt index and the working directory's entries alone.
AfterAttempt ==
    IF i = n_retries
    THEN <<"done", i, all_files_downloaded, "false", "none", invocations>>
    ELSE IF manifest.given
    THEN IF ~manifest.hasCol /\ Len(manifest.rows) > 0
         THEN <<"done", i, all_files_downloaded, "raised", "manifest", invocations>>
         ELSE <<"while", i + 1,
                ListDir(temp) = SetOf(IF manifest.hasCol THEN manifest.rows ELSE <<>>),
                "none", "none", invocations>>
    ELSE IF n_files.given /\ n_files.v # 0
    THEN <<"while", i + 1, Cardinality(ListDir(temp)) = n_files.v,
           "none", "none", invocations>>
    ELSE <<"while", i + 1, TRUE, "none", "none", invocations>>

\* C13: the Downloader's exit status never influences control flow.  Two
\* runs with the same arguments and the same directory contents after each
\* attempt stay in step whatever the statuses are, because every step of the
\* loop sets the loop's control to a value that is a function of the
\* arguments and the directory alone: a Downloader run only counts the
\* invocation, and the step after it lands on AfterAttempt.  And the loop is
\* left only when an attempt is verified, max_retries invocations are made,
\* or the manifest cannot be read.
C13_StatusIgnored ==
    /\ []((pc \in {"untar", "relocate", "done", "exited"} /\ fault \notin {"manifest", "cwd"})
             => (all_files_downloaded \/ invocations = n_retries))
    /\ [][/\ pc = "check_retries" => LoopControl' = AfterAttempt
          /\ (pc = "while" /\ pc' = "check_retries")
                => /\ invocations' = invocations + 1
                   /\ UNCHANGED <<i, all_files_downloaded, result, fault>>]_vars

\* An attempt is verified although the Downloader exited with a failure,
\* after an attempt that was not verified.
C13_Witness ==
    /\ pc = "while" /\ all_files_downloaded /\ returned_value = 1
    /\ Len(verdicts) = 2 /\ ~verdicts[1].ok

\* C14 as stated: the program exits with code 1 exactly when download_files
\* returned False, and with code 0 otherwise, whatever the extraction did.
C14_AsStated ==
    pc = "exited" => exit_code = (IF result = "false" THEN 1 ELSE 0)

\* C14: the program exits with code 0 exactly when download_files returned
\* True; when it returned False, and when it raised (a failed extraction
\* included), the program exits with code 1.
C14_ExitCode ==
    /\ pc = "exited" => /\ exit_code \in {0, 1}
                        /\ exit_code = 0 <=> result = "true"
                        /\ result \in {"false", "raised"} => exit_code = 1
    /\ pc # "exited" => exit_code = 0 - 1

\* The program has ended after an extraction that failed.
C14_Witness ==
    /\ pc = "exited" /\ result = "raised" /\ fault = "tar" /\ exit_code = 1
    /\ Len(tarRuns) >= 1

\* The last attempt made was verified (or assumed to have worked).
Verified == Len(verdicts) >= 1 /\ LastVerdict.ok
\* _untar has been entered.
ExtractionStarted == pc = "untar" \/ tarRuns # <<>> \/ fault \in {"mkdir", "tar"}

\* C15: post-processing is ordered after verified success.  Extraction runs
\* only when asked for and only after a verified attempt; while it runs, and
\* after it failed, nothing has been relocated; relocation starts only after
\* a verified attempt and, when extraction was asked for, with every archive
\* listed extracted and removed; a call that returns False has neither
\* extracted nor relocated anything.
C15_PostProcessingOrder ==
    /\ ExtractionStarted => untar /\ Verified
    /\ (pc = "untar" \/ fault \in {"mkdir", "tar"}) => ~relocated
    /\ (pc = "relocate" \/ relocated) =>
          /\ Verified
          /\ untar => /\ tar_files = {}
                      /\ \A k \in 1 .. Len(tarRuns) : tarRuns[k].st = 0
    /\ relocated => Ended
    /\ result = "false" => ~relocated /\ ~ExtractionStarted /\ ~Verified

\* A call verified at its second attempt has extracted an archive and then
\* relocated.
C15_Witness ==
    /\ pc = "done" /\ result = "true" /\ untar /\ relocated
    /\ Len(tarRuns) = 1 /\ VerifiedAt(2)

\* C16: the output directory is written only by the relocation step.  In a
\* call that has returned False or raised before relocation, the output
\* directory is as it was at the call, however many attempts were made.
C16_OutputOnlyByRelocation ==
    (Ended /\ result \in {"false", "raised"} /\ ~relocated) => out = outAtCall

\* C17: between attempts the controller never removes, renames or alters an
\* entry of the working directory.  Every step of the attempt loop that is
\* not a run of the Downloader and does not end the call leaves the working
\* directory, its existence and the process's directory as they are: what
\* attempt j left is what its verification reads and what attempt j+1 finds.
C17_LoopOnlyReads ==
    [][(pc \in {"while", "check_retries"} /\ pc' # "done"
          /\ ~(pc = "while" /\ pc' = "check_retries"))
         => UNCHANGED <<temp, tempExists, cwd>>]_vars

\* The second attempt is about to run and the file of the first is there.
C17_Witness ==
    /\ pc = "while" /\ i = 2 /\ ~all_files_downloaded /\ Len(verdicts) = 1
    /\ temp[A] = FileEntry("dl") /\ tempExists /\ cwd = "temp"

\* C18: archive extraction completes for every archive.  When every tar
\* command run exited 0, extraction ends without a fault whatever the
\* entries of the working directory are; once it has ended no entry ending
\* in .tar or .tar.gz remains and each archive has its subdirectory.
C18_ExtractionCompletes ==
    (untar /\ \A k \in 1 .. Len(tarRuns) : tarRuns[k].st = 0) =>
        /\ fault # "mkdir"
        /\ pc = "relocate" =>
              /\ \A n \in ListDir(temp) : ~EndsWithTar(n)
              /\ \A k \in 1 .. Len(tarRuns) :
                    temp[SplitTar0(tarRuns[k].f)].kind = "dir"

\* The strategy lines 55-61 select for the arguments of the call.
Strategy ==
    IF manifest.given THEN "manifest"
    ELSE IF n_files.given /\ n_files.v # 0 THEN "n_files"
    ELSE "none"

\* C19: at most one verification strategy is active per download.  Every
\* attempt verified so far was decided by the same single strategy, each by
\* one listing of the directory at most and, for the manifest check only,
\* one reading of the manifest; when a manifest is passed every verdict is
\* the manifest check's and the one just given is what that check says of
\* the directory, whatever the expected count is.
C19_OneStrategy ==
    /\ \A j \in 1 .. Len(verdicts) : verdicts[j].by = Strategy
    /\ Strategy = "manifest" =>
          /\ listings = Len(verdicts)
          /\ reads \in {listings, listings + 1}
          /\ (pc = "while" /\ Len(verdicts) >= 1) =>
                LastVerdict.ok = (ListDir(temp) = SetOf(manifest.rows))
    /\ Strategy = "n_files" =>
          /\ listings = Len(verdicts) /\ reads = 0
          /\ (pc = "while" /\ Len(verdicts) >= 1) =>
                LastVerdict.ok = (Cardinality(ListDir(temp)) = n_files.v)
    /\ Strategy = "none" =>
          /\ listings = 0 /\ reads = 0
          /\ \A j \in 1 .. Len(verdicts) : verdicts[j].ok

\* A manifest and an expected count are passed; the second attempt is
\* accepted by the manifest although the count does not match.
C19_Witness ==
    /\ pc = "while" /\ manifest.given /\ n_files.given /\ n_files.v # 0
    /\ Len(verdicts) = 2 /\ verdicts[2].ok /\ ~verdicts[1].ok
    /\ Cardinality(ListDir(temp)) # n_files.v

\* The name with exactly its trailing archive suffix removed.
StripSuffix(f) ==
    IF f[Len(f)] = ".tar" THEN SubSeq(f, 1, Len(f) - 1)
    ELSE SubSeq(f, 1, Len(f) - 2)

\* C20: for every archive entry name, the extraction subdirectory's name is
\* the entry name with exactly its trailing .tar or .tar.gz removed, also
\* when ".tar" occurs earlier in the name.
C20_SuffixStripped ==
    pc = "split" => extract_directory = StripSuffix(fname)

====
